---- MODULE Spec2Model ----
(***************************************************************************)
(* The Ollama adapter of min-cli: the request/response translation of      *)
(* ollamaAdapter.ts and the generator client of ollamaContentGenerator.ts. *)
(*                                                                         *)
(* JavaScript values are modelled as follows.  An object is a function     *)
(* from field names to values; a field that is undefined is a field that   *)
(* is absent from the DOMAIN, so `x.f !== undefined` and `'f' in x` are    *)
(* both  "f" \in DOMAIN x.  An array is a sequence.  A bare string where   *)
(* the code expects `string | object` is the object [string |-> s].        *)
(* A variable that holds "a value or nothing" is a sequence of length 0    *)
(* or 1.                                                                   *)
(***************************************************************************)
EXTENDS Integers, Sequences, FiniteSets, TLC

(***************************************************************************)
(* Bounds of the model.                                                    *)
(***************************************************************************)
\* transport events (chunks, a failure, the end of the source) per stream
MaxChunks == 3
\* parts of one turn
MaxParts == 2
\* turns of one request
MaxTurns == 2
\* tool calls of one chat response
MaxToolCalls == 2
\* transport events per stream when two streams are pulled concurrently
MaxConcurrentChunks == 2

VARIABLES
    pc,                \* "idle" | "returned" | "threw" | "suspendedStart" | "suspendedYield" | "completed"
    op,                \* the operation that was invoked, "none" before
    args,              \* the arguments of the invocation
    returned,          \* <<>> or <<the value the operation returned>>
    thrown,            \* <<>> or <<the error the operation (or a pull) threw>>
    chatCalls,         \* the requests passed to ollama.chat, in order
    transport,         \* what the transport answered, in order
    yielded,           \* the fragments delivered to the caller of a stream
    promptTokens,      \* local of the stream's generator body
    completionTokens,  \* local of the stream's generator body
    lastPull,          \* outcome of the latest pull: "none" | "yield" | "return" | "throw"
    streams,           \* the streams obtained concurrently from one generator, by id
    locals,            \* the bindings of promptTokens and completionTokens, by cell
    pulls              \* the ids of the streams whose generator body was run, in pull order

vars == <<pc, op, args, returned, thrown, chatCalls, transport, yielded,
          promptTokens, completionTokens, lastPull, streams, locals, pulls>>

\* the state of one call consumed alone
single == <<pc, op, args, returned, thrown, transport, yielded,
            promptTokens, completionTokens, lastPull>>

\* the state of the streams obtained concurrently
concurrent == <<streams, locals, pulls>>

(***************************************************************************)
(* Helpers for JavaScript values.                                          *)
(***************************************************************************)
Has(obj, field) == field \in DOMAIN obj

\* the objects `base` and `base` with `field` set to one of `values`
Opt(base, field, values) == {base} \cup {base @@ (field :> v) : v \in values}

\* the sequences over S of length 0..n
SeqUpTo(S, n) == UNION {[1..k -> S] : k \in 0..n}

Last(s) == s[Len(s)]

\* Array.prototype.join on an array of strings
RECURSIVE join(_, _)
join(strings, sep) ==
    IF strings = <<>> THEN ""
    ELSE IF Len(strings) = 1 THEN strings[1]
    ELSE strings[1] \o sep \o join(Tail(strings), sep)

\* the text of every part that has a text field: parts.filter('text' in p).map(p.text)
textsOf(parts) ==
    LET withText == SelectSeq(parts, LAMBDA p : Has(p, "text"))
    IN  [i \in 1..Len(withText) |-> withText[i].text]

(***************************************************************************)
(* Values a failing call rejects with: Error objects and thrown            *)
(* non-Errors (a string, a number).                                        *)
(***************************************************************************)
Rejections ==
    { [name |-> "Error", message |-> "connection refused"],
      [string |-> "timeout"],
      [number |-> 500] }

\* error instanceof Error
instanceofError(error) == Has(error, "message")

\* String(error) for a thrown non-Error
String(error) ==
    IF Has(error, "string") THEN error.string
    ELSE IF Has(error, "number") THEN ToString(error.number)
    ELSE error.name \o ": " \o error.message

\* error instanceof Error ? error.message : String(error)
errorText(error) == IF instanceofError(error) THEN error.message ELSE String(error)

\* variant: the upstream text thrown on without the prefix
ApiErrorRethrown(error) == [name |-> "Error", message |-> errorText(error)]
\* new Error(`Ollama API error: ${...}`)
ApiError(error) == [name |-> "Error", message |-> "Ollama API error: " \o errorText(error)]

\* variant: a stream failure wrapped like a one-shot failure
StreamingErrorAsApi(error) == ApiError(error)
\* new Error(`Ollama streaming error: ${...}`)
StreamingError(error) ==
    [name |-> "Error", message |-> "Ollama streaming error: " \o errorText(error)]

(***************************************************************************)
(* ollamaAdapter.ts                                                        *)
(***************************************************************************)
\* Array.isArray(x): an array argument of an `array | object | string`
\* position is the object [array |-> <<...>>]
isArray(x) == Has(x, "array")

\* JSON.stringify of one function-response payload {name, response: {output}}
stringifyPayload(payload) ==
    "{\"name\":\"" \o payload.name \o "\",\"response\":{\"output\":\""
        \o payload.response.output \o "\"}}"

\* JSON.stringify of an array of function-response payloads
JSONstringify(payloads) ==
    "[" \o join([i \in 1..Len(payloads) |-> stringifyPayload(payloads[i])], ",") \o "]"

\* content.role === 'model' ? 'assistant' : content.role, as the role field
roleField(content) ==
    IF ~Has(content, "role") THEN <<>>
    ELSE [role |-> IF content.role = "model" THEN "assistant" ELSE content.role]

\* one entry of tool_calls for a function-call part
toolCallOf(part) ==
    [function |-> [name |-> part.functionCall.name,
                   arguments |-> part.functionCall.args]]

\* variant: the function responses tested before the function calls
contentToOllamaMessageResponsesFirst(content) ==
    LET parts == IF Has(content, "parts") THEN content.parts ELSE <<>>
        content_text == join(textsOf(parts), "\n")
        functionCallParts == SelectSeq(parts, LAMBDA p : Has(p, "functionCall"))
        functionResponseParts == SelectSeq(parts, LAMBDA p : Has(p, "functionResponse"))
    IN  IF Len(functionResponseParts) > 0
        THEN [role |-> "tool",
              content |-> JSONstringify([i \in 1..Len(functionResponseParts) |->
                                            functionResponseParts[i].functionResponse])]
        ELSE IF Len(functionCallParts) > 0
        THEN roleField(content) @@
             [content |-> content_text,
              tool_calls |-> [i \in 1..Len(functionCallParts) |->
                                 toolCallOf(functionCallParts[i])]]
        ELSE roleField(content) @@ [content |-> content_text]

\* contentToOllamaMessage: function calls, else function responses, else text
contentToOllamaMessage(content) ==
    LET parts == IF Has(content, "parts") THEN content.parts ELSE <<>>
        content_text == join(textsOf(parts), "\n")
        functionCallParts == SelectSeq(parts, LAMBDA p : Has(p, "functionCall"))
        functionResponseParts == SelectSeq(parts, LAMBDA p : Has(p, "functionResponse"))
    IN  IF Len(functionCallParts) > 0
        THEN roleField(content) @@
             [content |-> content_text,
              tool_calls |-> [i \in 1..Len(functionCallParts) |->
                                 toolCallOf(functionCallParts[i])]]
        ELSE IF Len(functionResponseParts) > 0
        THEN [role |-> "tool",
              content |-> JSONstringify([i \in 1..Len(functionResponseParts) |->
                                            functionResponseParts[i].functionResponse])]
        ELSE roleField(content) @@ [content |-> content_text]

\* the text of a system instruction: the string itself, or the joined text
\* parts of an object (<<>> when the object has no parts: `?.` gives undefined)
systemContentOf(systemInstruction) ==
    IF Has(systemInstruction, "string") THEN <<systemInstruction.string>>
    ELSE IF Has(systemInstruction, "parts")
         THEN <<join(textsOf(systemInstruction.parts), "\n")>>
         ELSE <<>>

\* truthiness of `string | object | undefined`
truthy(value) ==
    /\ value # <<>>
    /\ Has(value[1], "string") => value[1].string # ""

\* variant: a system message pushed whatever the instruction's text
systemMessagesAlways(params) ==
    IF Has(params, "config") /\ Has(params.config, "systemInstruction")
    THEN LET systemContent == systemContentOf(params.config.systemInstruction)
         IN  <<[role |-> "system",
                content |-> IF systemContent = <<>> THEN "" ELSE systemContent[1]]>>
    ELSE <<>>

\* the messages pushed for config.systemInstruction (none or one)
systemMessages(params) ==
    LET systemInstruction ==
            IF Has(params, "config") /\ Has(params.config, "systemInstruction")
            THEN <<params.config.systemInstruction>> ELSE <<>>
    IN  IF truthy(systemInstruction)
        THEN LET systemContent == systemContentOf(systemInstruction[1])
             IN  IF systemContent # <<>> /\ systemContent[1] # ""
                 THEN <<[role |-> "system", content |-> systemContent[1]]>>
                 ELSE <<>>
        ELSE <<>>

\* Array.isArray(params.contents) ? params.contents : [params.contents]
contentsOf(params) ==
    IF isArray(params.contents) THEN params.contents.array ELSE <<params.contents>>

\* variant: the history walked from its end
historyMessageReversed(contents, i) ==
    LET content == contents[Len(contents) + 1 - i]
    IN  IF Has(content, "string")
        THEN [role |-> "user", content |-> content.string]
        ELSE contentToOllamaMessage(content)

\* the message pushed for the i-th turn of the history
historyMessage(contents, i) ==
    IF Has(contents[i], "string")
    THEN [role |-> "user", content |-> contents[i].string]
    ELSE contentToOllamaMessage(contents[i])

\* to: from, when the source field is defined
copyField(obj, from, to) == IF Has(obj, from) THEN (to :> obj[from]) ELSE <<>>

\* request.options after the config options are mapped
optionsOf(params) ==
    IF Has(params, "config")
    THEN copyField(params.config, "temperature", "temperature")
         @@ copyField(params.config, "topP", "top_p")
         @@ copyField(params.config, "topK", "top_k")
         @@ copyField(params.config, "maxOutputTokens", "num_predict")
    ELSE <<>>

\* one declared tool: its first function declaration, or the tool unchanged
toolOf(tool) ==
    IF Has(tool, "functionDeclarations") /\ Len(tool.functionDeclarations) > 0
    THEN LET functionDeclaration == tool.functionDeclarations[1]
         IN  [type |-> "function",
              function |-> [name |-> functionDeclaration.name,
                            description |-> functionDeclaration.description,
                            parameters |-> functionDeclaration.parameters]]
    ELSE tool

\* the tools field of the request, when config.tools is a non-empty array
toolsField(params) ==
    IF /\ Has(params, "config")
       /\ Has(params.config, "tools")
       /\ Len(params.config.tools) > 0
    THEN [tools |-> [i \in 1..Len(params.config.tools) |-> toolOf(params.config.tools[i])]]
    ELSE <<>>

geminiToOllamaRequest(params) ==
    LET contents == contentsOf(params)
        messages == systemMessages(params)
                    \o [i \in 1..Len(contents) |-> historyMessage(contents, i)]
    IN  [model |-> params.model,
         messages |-> messages,
         stream |-> FALSE,
         options |-> optionsOf(params)] @@ toolsField(params)

\* the function-call part for one tool call
functionCallPartOf(toolCall) ==
    [functionCall |-> [name |-> toolCall.function.name,
                       args |-> toolCall.function.arguments]]

\* the function-call parts pushed for message.tool_calls
toolCallParts(message) ==
    IF Has(message, "tool_calls") /\ Len(message.tool_calls) > 0
    THEN [i \in 1..Len(message.tool_calls) |-> functionCallPartOf(message.tool_calls[i])]
    ELSE <<>>

\* variant: the text part pushed for empty content too
responsePartsTextAlways(response) ==
    <<[text |-> response.message.content]>> \o toolCallParts(response.message)

\* the parts of the candidate: the text part, then the function-call parts
responseParts(response) ==
    (IF response.message.content # "" THEN <<[text |-> response.message.content]>> ELSE <<>>)
    \o toolCallParts(response.message)

\* variant: a total computed with a missing count taken as 0
usageMetadataOfTotalAlways(response) ==
    LET prompt == IF Has(response, "prompt_eval_count") THEN response.prompt_eval_count ELSE 0
        output == IF Has(response, "eval_count") THEN response.eval_count ELSE 0
    IN  copyField(response, "prompt_eval_count", "promptTokenCount")
        @@ copyField(response, "eval_count", "candidatesTokenCount")
        @@ (IF Has(response, "prompt_eval_count") \/ Has(response, "eval_count")
            THEN [totalTokenCount |-> prompt + output] ELSE <<>>)

\* the usageMetadata object filled from the response's counts
usageMetadataOf(response) ==
    copyField(response, "prompt_eval_count", "promptTokenCount")
    @@ copyField(response, "eval_count", "candidatesTokenCount")
    @@ (IF Has(response, "prompt_eval_count") /\ Has(response, "eval_count")
        THEN [totalTokenCount |-> response.prompt_eval_count + response.eval_count]
        ELSE <<>>)

\* response.done ? FinishReason.STOP : FinishReason.OTHER
finishReasonOf(response) == IF response.done THEN "STOP" ELSE "OTHER"

ollamaToGeminiResponse(response, model) ==
    LET candidate == [content |-> [role |-> "model", parts |-> responseParts(response)],
                      finishReason |-> finishReasonOf(response),
                      index |-> 0]
        usageMetadata == usageMetadataOf(response)
    IN  [candidates |-> <<candidate>>, modelVersion |-> model]
        @@ (IF DOMAIN usageMetadata # {} THEN [usageMetadata |-> usageMetadata] ELSE <<>>)

\* characters per estimated token
CharsPerToken == 4

\* the characters one part adds to totalChars
charsOfPart(part) ==
    IF Has(part, "string") THEN Len(part.string)
    ELSE IF Has(part, "text") THEN Len(part.text)
    ELSE 0

RECURSIVE charsOfParts(_)
charsOfParts(parts) ==
    IF parts = <<>> THEN 0 ELSE charsOfPart(parts[1]) + charsOfParts(Tail(parts))

\* the characters one element of contents adds to totalChars
charsOfContent(content) ==
    IF Has(content, "string") THEN Len(content.string)
    ELSE IF Has(content, "parts") THEN charsOfParts(content.parts)
    ELSE 0

RECURSIVE charsOfContents(_)
charsOfContents(contents) ==
    IF contents = <<>> THEN 0
    ELSE charsOfContent(contents[1]) + charsOfContents(Tail(contents))

\* the undefined element of [params.contents] when contents is not given
undefined == [undefined |-> TRUE]

\* Array.isArray(params.contents) ? params.contents : [params.contents]
countedContentsOf(params) ==
    IF ~Has(params, "contents") THEN <<undefined>>
    ELSE IF isArray(params.contents) THEN params.contents.array
    ELSE <<params.contents>>

\* variant: rounding down
estimatedTokensFloor(totalChars) == totalChars \div CharsPerToken

\* Math.ceil(totalChars / 4)
estimatedTokens(totalChars) == (totalChars + CharsPerToken - 1) \div CharsPerToken

estimateTokenCount(params) ==
    [totalTokens |-> estimatedTokens(charsOfContents(countedContentsOf(params)))]

(***************************************************************************)
(* ollamaContentGenerator.ts: the body of the stream's generator           *)
(***************************************************************************)
\* variant: the count reset by a chunk that reports none
promptTokensAfterReset(running, chunk) ==
    IF Has(chunk, "prompt_eval_count") THEN chunk.prompt_eval_count ELSE 0

\* promptTokens after the chunk's prompt_eval_count is looked at
promptTokensAfter(running, chunk) ==
    IF Has(chunk, "prompt_eval_count") THEN chunk.prompt_eval_count ELSE running

\* completionTokens after the chunk's eval_count is looked at
completionTokensAfter(running, chunk) ==
    IF Has(chunk, "eval_count") THEN chunk.eval_count ELSE running

\* chunk.message?.content || ''
chunkText(chunk) ==
    IF Has(chunk, "message") /\ Has(chunk.message, "content")
    THEN chunk.message.content ELSE ""

\* variant: the usage attached whatever the running counts
streamUsageAlways(prompt, completion) ==
    [usageMetadata |-> [promptTokenCount |-> prompt,
                        candidatesTokenCount |-> completion,
                        totalTokenCount |-> prompt + completion]]

\* the usageMetadata field of a fragment, given the running counts
streamUsage(prompt, completion) ==
    IF prompt > 0 \/ completion > 0
    THEN [usageMetadata |-> [promptTokenCount |-> prompt,
                             candidatesTokenCount |-> completion,
                             totalTokenCount |-> prompt + completion]]
    ELSE <<>>

\* the fragment yielded for a chunk, given the running counts after the chunk
responseData(chunk, prompt, completion, model) ==
    [candidates |-> <<[content |-> [role |-> "model",
                                    parts |-> <<[text |-> chunkText(chunk)]>>],
                       finishReason |-> finishReasonOf(chunk),
                       index |-> 0]>>,
     modelVersion |-> model] @@ streamUsage(prompt, completion)

\* variant: the loop never breaks
breakNever(chunk) == FALSE

\* if (chunk.done) break, evaluated when the generator is resumed
breaksAfter(chunk) == chunk.done

(***************************************************************************)
(* The inputs the operations are called with.                              *)
(***************************************************************************)
Models == {"llama3.2", "mistral"}

FunctionCalls ==
    { [name |-> "get_weather", args |-> [city |-> "Oslo"]],
      [name |-> "search", args |-> [q |-> "tla"]] }

FunctionResponses ==
    { [name |-> "get_weather", response |-> [output |-> "rain"]],
      [name |-> "search", response |-> [output |-> ""]] }

\* parts of a turn; the last one carries a text and a function call at once
Parts ==
    {[text |-> t] : t \in {"", "abc", "hello"}}
    \cup {[functionCall |-> f] : f \in FunctionCalls}
    \cup {[functionResponse |-> r] : r \in FunctionResponses}
    \cup {[text |-> "see", functionCall |-> [name |-> "search", args |-> [q |-> "tla"]]]}

Roles == {"user", "model", "tool", "system"}

\* the turns contentToOllamaMessage is called with: role and parts both optional
Contents ==
    LET withParts == {<<>>} \cup {[parts |-> ps] : ps \in SeqUpTo(Parts, MaxParts)}
    IN  UNION {Opt(c, "role", Roles) : c \in withParts}

\* the turns the requests are built from: a bare string, text-only turns,
\* a function-call turn and a function-response turn
RequestTurns ==
    { [string |-> "hi"],
      [role |-> "user", parts |-> <<[text |-> "abc"]>>],
      [role |-> "model", parts |-> <<[text |-> "hello"], [text |-> "abc"]>>],
      [role |-> "system", parts |-> <<[text |-> "hello"]>>],
      [role |-> "model",
       parts |-> <<[functionCall |-> [name |-> "get_weather", args |-> [city |-> "Oslo"]]]>>],
      [role |-> "user",
       parts |-> <<[functionResponse |->
                      [name |-> "get_weather", response |-> [output |-> "rain"]]]>>] }

RequestContents ==
    {[array |-> turns] : turns \in SeqUpTo(RequestTurns, MaxTurns)}
    \cup { [string |-> "hi"], [role |-> "user", parts |-> <<[text |-> "abc"]>>] }

SystemInstructions ==
    { [string |-> ""],
      [string |-> "Be brief"],
      [parts |-> <<[text |-> "Be"], [text |-> "brief"]>>],
      [parts |-> <<[text |-> ""]>>],
      [parts |-> <<[functionCall |-> [name |-> "search", args |-> [q |-> "tla"]]]>>],
      [parts |-> <<>>],
      [role |-> "system"] }

GenerationOptions ==
    { <<>>,
      [temperature |-> 1],
      [topP |-> 1, topK |-> 40, maxOutputTokens |-> 256] }

ToolDeclarations ==
    << [functionDeclarations |->
          << [name |-> "get_weather", description |-> "weather", parameters |-> [city |-> "string"]],
             [name |-> "search", description |-> "search", parameters |-> [q |-> "string"]] >>],
       [functionDeclarations |-> <<>>],
       [googleSearch |-> TRUE] >>

Configs ==
    { instruction @@ options @@ tools :
        instruction \in {<<>>} \cup {[systemInstruction |-> i] : i \in SystemInstructions},
        options \in GenerationOptions,
        tools \in {<<>>, [tools |-> <<>>], [tools |-> ToolDeclarations]} }

Params ==
    UNION { Opt([model |-> "llama3.2", contents |-> c], "config", Configs) :
              c \in RequestContents }

\* the requests the generator is called with
ClientParams ==
    { [model |-> "llama3.2",
       contents |-> [array |-> <<[role |-> "user", parts |-> <<[text |-> "hi"]>>]>>]],
      [model |-> "mistral",
       contents |-> [string |-> "hi"],
       config |-> [systemInstruction |-> [string |-> "Be brief"], temperature |-> 1]] }

ToolCalls ==
    { [function |-> [name |-> "get_weather", arguments |-> [city |-> "Oslo"]]],
      [function |-> [name |-> "search", arguments |-> [q |-> "tla"]]] }

TokenCounts == {0, 2, 5}

\* the responses of a non-streaming chat call
ChatResponses ==
    LET messages ==
            UNION { Opt([role |-> "assistant", content |-> c], "tool_calls",
                        SeqUpTo(ToolCalls, MaxToolCalls)) : c \in {"", "hi"} }
        bare == {[message |-> m, done |-> d] : m \in messages, d \in BOOLEAN}
        withPrompt == UNION {Opt(r, "prompt_eval_count", TokenCounts) : r \in bare}
    IN  UNION {Opt(r, "eval_count", TokenCounts) : r \in withPrompt}

\* the chunks of a streaming chat call
StreamChunks ==
    LET bare == UNION { Opt([done |-> d], "message",
                            {[role |-> "assistant", content |-> "Hel"]}) : d \in BOOLEAN }
        withPrompt == UNION {Opt(c, "prompt_eval_count", {0, 5}) : c \in bare}
    IN  UNION {Opt(c, "eval_count", {2}) : c \in withPrompt}

\* parts of the turns countTokens is called with; a part may be a bare string
CountParts ==
    { [text |-> ""], [text |-> "abc"], [text |-> "hello"], [string |-> "ab"],
      [functionCall |-> [name |-> "search", args |-> [q |-> "tla"]]] }

CountTurns ==
    { [string |-> ""], [string |-> "hello"], [role |-> "user"],
      [role |-> "user", parts |-> <<[text |-> "abc"]>>],
      [role |-> "model", parts |-> <<[text |-> "hello"], [string |-> "ab"]>>] }

CountParams ==
    Opt([model |-> "llama3.2"], "contents",
        {[array |-> turns] : turns \in SeqUpTo(CountTurns, MaxTurns)}
        \cup {[array |-> <<[role |-> "user", parts |-> ps]>>] : ps \in SeqUpTo(CountParts, MaxParts)}
        \cup CountTurns)

\* the ids of the two streams obtained from one generator
Streams == {1, 2}

\* the chunks of the streaming chat calls of concurrent streams
ConcurrentChunks ==
    { [done |-> FALSE, message |-> [role |-> "assistant", content |-> "Hel"],
       prompt_eval_count |-> 5],
      [done |-> FALSE, message |-> [role |-> "assistant", content |-> "Hel"]],
      [done |-> TRUE, eval_count |-> 2],
      [done |-> TRUE, message |-> [role |-> "assistant", content |-> "Hel"],
       prompt_eval_count |-> 0] }

\* what a failing call of a concurrent stream rejects with
ConcurrentRejections == {[name |-> "Error", message |-> "connection refused"]}

\* a stream before generateContentStream is called for it
noStream ==
    [pc |-> "idle", request |-> <<>>, transport |-> <<>>, yielded |-> <<>>,
     thrown |-> <<>>, lastPull |-> "none"]

\* let promptTokens = 0; let completionTokens = 0
freshLocals == [promptTokens |-> 0, completionTokens |-> 0]

(***************************************************************************)
(* Init and the operations.                                                *)
(***************************************************************************)
Init ==
    /\ pc = "idle"
    /\ op = "none"
    /\ args = <<>>
    /\ returned = <<>>
    /\ thrown = <<>>
    /\ chatCalls = <<>>
    /\ transport = <<>>
    /\ yielded = <<>>
    /\ promptTokens = 0
    /\ completionTokens = 0
    /\ lastPull = "none"
    /\ streams = [s \in Streams |-> noStream]
    /\ locals = [s \in Streams |-> freshLocals]
    /\ pulls = <<>>

\* a call of an adapter function that returns `value`
Returns(name, arguments, value) ==
    /\ pc' = "returned"
    /\ op' = name
    /\ args' = arguments
    /\ returned' = <<value>>
    /\ UNCHANGED <<thrown, chatCalls, transport, yielded, promptTokens,
                   completionTokens, lastPull>>

CallContentToOllamaMessage ==
    /\ pc = "idle"
    /\ UNCHANGED concurrent
    /\ \E content \in Contents :
        Returns("contentToOllamaMessage", <<content>>, contentToOllamaMessage(content))

CallGeminiToOllamaRequest ==
    /\ pc = "idle"
    /\ UNCHANGED concurrent
    /\ \E params \in Params :
        Returns("geminiToOllamaRequest", <<params>>, geminiToOllamaRequest(params))

CallOllamaToGeminiResponse ==
    /\ pc = "idle"
    /\ UNCHANGED concurrent
    /\ \E response \in ChatResponses, model \in Models :
        Returns("ollamaToGeminiResponse", <<response, model>>,
                ollamaToGeminiResponse(response, model))

\* the request generateContent passes to ollama.chat
chatRequest(request) == [geminiToOllamaRequest(request) EXCEPT !.stream = FALSE]

\* the request the generator body passes to ollama.chat
streamRequest(request) == [geminiToOllamaRequest(request) EXCEPT !.stream = TRUE]

\* generateContent, the chat call resolving with `response`
generateContentResolves ==
    /\ pc = "idle"
    /\ UNCHANGED concurrent
    /\ \E request \in ClientParams, response \in ChatResponses :
        /\ pc' = "returned"
        /\ op' = "generateContent"
        /\ args' = <<request>>
        /\ chatCalls' = <<chatRequest(request)>>
        /\ transport' = <<[resolves |-> response]>>
        /\ returned' = <<ollamaToGeminiResponse(response, request.model)>>
        /\ UNCHANGED <<thrown, yielded, promptTokens, completionTokens, lastPull>>

\* generateContent, the chat call rejecting with `error`
generateContentRejects ==
    /\ pc = "idle"
    /\ UNCHANGED concurrent
    /\ \E request \in ClientParams, error \in Rejections :
        /\ pc' = "threw"
        /\ op' = "generateContent"
        /\ args' = <<request>>
        /\ chatCalls' = <<chatRequest(request)>>
        /\ transport' = <<[rejects |-> error, on |-> "chat"]>>
        /\ thrown' = <<ApiError(error)>>
        /\ UNCHANGED <<returned, yielded, promptTokens, completionTokens, lastPull>>

countTokens ==
    /\ pc = "idle"
    /\ UNCHANGED concurrent
    /\ \E request \in CountParams :
        /\ pc' = "returned"
        /\ op' = "countTokens"
        /\ args' = <<request>>
        /\ returned' = <<estimateTokenCount(request)>>
        /\ UNCHANGED <<thrown, chatCalls, transport, yielded, promptTokens,
                       completionTokens, lastPull>>

\* generateContentStream: the generator is created, its body has not started
generateContentStream ==
    /\ pc = "idle"
    /\ UNCHANGED concurrent
    /\ \E request \in ClientParams :
        /\ pc' = "suspendedStart"
        /\ op' = "generateContentStream"
        /\ args' = <<request>>
        /\ UNCHANGED <<returned, thrown, chatCalls, transport, yielded, promptTokens,
                       completionTokens, lastPull>>

\* the first pull: ollama.chat({stream: true}) rejects
pullChatRejects ==
    /\ pc = "suspendedStart"
    /\ UNCHANGED concurrent
    /\ \E error \in Rejections :
        /\ pc' = "completed"
        /\ chatCalls' = <<streamRequest(args[1])>>
        /\ transport' = <<[rejects |-> error, on |-> "chat"]>>
        /\ thrown' = <<StreamingError(error)>>
        /\ lastPull' = "throw"
        /\ UNCHANGED <<op, args, returned, yielded, promptTokens, completionTokens>>

\* a pull asks the source for its next chunk: on the first pull after the chat
\* call resolved, on a later pull when the chunk yielded last did not break
asksSource ==
    /\ Len(transport) < MaxChunks
    /\ \/ pc = "suspendedStart"
       \/ pc = "suspendedYield" /\ ~breaksAfter(Last(transport).chunk)

\* the chat calls after a pull that asks the source
chatCallsAfterPull ==
    IF pc = "suspendedStart" THEN <<streamRequest(args[1])>> ELSE chatCalls

\* a pull that gets `chunk` from the source and yields its fragment
pullChunk ==
    /\ asksSource
    /\ UNCHANGED concurrent
    /\ \E chunk \in StreamChunks :
        /\ pc' = "suspendedYield"
        /\ chatCalls' = chatCallsAfterPull
        /\ transport' = Append(transport, [chunk |-> chunk])
        /\ promptTokens' = promptTokensAfter(promptTokens, chunk)
        /\ completionTokens' = completionTokensAfter(completionTokens, chunk)
        /\ yielded' = Append(yielded, responseData(chunk, promptTokens', completionTokens',
                                                   args[1].model))
        /\ lastPull' = "yield"
        /\ UNCHANGED <<op, args, returned, thrown>>

\* a pull on which the source's iteration rejects
pullSourceRejects ==
    /\ asksSource
    /\ UNCHANGED concurrent
    /\ \E error \in Rejections :
        /\ pc' = "completed"
        /\ chatCalls' = chatCallsAfterPull
        /\ transport' = Append(transport, [rejects |-> error, on |-> "chunk"])
        /\ thrown' = <<StreamingError(error)>>
        /\ lastPull' = "throw"
        /\ UNCHANGED <<op, args, returned, yielded, promptTokens, completionTokens>>

\* a pull on which the source has no more chunks
pullSourceEnds ==
    /\ asksSource
    /\ UNCHANGED concurrent
    /\ pc' = "completed"
    /\ chatCalls' = chatCallsAfterPull
    /\ transport' = Append(transport, [ends |-> TRUE])
    /\ lastPull' = "return"
    /\ UNCHANGED <<op, args, returned, thrown, yielded, promptTokens, completionTokens>>

\* the pull after the fragment of a chunk with done: the loop breaks
pullBreaks ==
    /\ pc = "suspendedYield"
    /\ UNCHANGED concurrent
    /\ breaksAfter(Last(transport).chunk)
    /\ pc' = "completed"
    /\ lastPull' = "return"
    /\ UNCHANGED <<op, args, returned, thrown, chatCalls, transport, yielded,
                   promptTokens, completionTokens>>

\* a pull on a generator that has returned or thrown
pullCompleted ==
    /\ pc = "completed"
    /\ UNCHANGED concurrent
    /\ lastPull' = "return"
    /\ UNCHANGED <<pc, op, args, returned, thrown, chatCalls, transport, yielded,
                   promptTokens, completionTokens>>

Next ==
    \/ CallContentToOllamaMessage
    \/ CallGeminiToOllamaRequest
    \/ CallOllamaToGeminiResponse
    \/ generateContentResolves
    \/ generateContentRejects
    \/ countTokens
    \/ generateContentStream
    \/ pullChatRejects
    \/ pullChunk
    \/ pullSourceRejects
    \/ pullSourceEnds
    \/ pullBreaks
    \/ pullCompleted

Spec == Init /\ [][Next]_vars

(***************************************************************************)
(* Two streams obtained from one generator and pulled in any interleaving. *)
(* Each call of the generator function runs its own body: the body of      *)
(* stream s declares promptTokens and completionTokens when it starts and  *)
(* keeps them in the cell localsOf(s); the streams share this.ollama, on   *)
(* which the chat calls are logged in chatCalls.                           *)
(***************************************************************************)
\* variant: one pair of counts kept on the generator object for all streams
localsShared(s) == 1

\* the cell holding the bindings of stream s: the body's own `let` bindings
localsOf(s) == s

\* the running counts stream s's body sees when it is resumed: declared 0 on
\* the first pull, else what its cell holds
localsSeen(s) ==
    IF streams[s].pc = "suspendedStart" THEN freshLocals ELSE locals[localsOf(s)]

\* stream s's pull asks its source for the next chunk
asksSourceOf(s) ==
    /\ Len(streams[s].transport) < MaxConcurrentChunks
    /\ \/ streams[s].pc = "suspendedStart"
       \/ /\ streams[s].pc = "suspendedYield"
          /\ ~breaksAfter(Last(streams[s].transport).chunk)

\* the chat calls on the shared handle after a pull of stream s that asks the source
chatCallsAfterPullOf(s) ==
    IF streams[s].pc = "suspendedStart"
    THEN Append(chatCalls, streamRequest(streams[s].request[1]))
    ELSE chatCalls

\* generateContentStream is called for stream s
concurrentGenerateContentStream ==
    \E s \in Streams, request \in ClientParams :
        /\ streams[s].pc = "idle"
        /\ streams' = [streams EXCEPT ![s].pc = "suspendedStart", ![s].request = <<request>>]
        /\ UNCHANGED <<single, chatCalls, locals, pulls>>

\* the first pull of stream s: ollama.chat({stream: true}) rejects
concurrentPullChatRejects ==
    \E s \in Streams, error \in ConcurrentRejections :
        /\ streams[s].pc = "suspendedStart"
        /\ streams' = [streams EXCEPT
                          ![s].pc = "completed",
                          ![s].transport = <<[rejects |-> error, on |-> "chat"]>>,
                          ![s].thrown = <<StreamingError(error)>>,
                          ![s].lastPull = "throw"]
        /\ chatCalls' = Append(chatCalls, streamRequest(streams[s].request[1]))
        /\ pulls' = Append(pulls, s)
        /\ UNCHANGED <<single, locals>>

\* a pull of stream s that gets `chunk` from its source and yields its fragment
concurrentPullChunk ==
    \E s \in Streams, chunk \in ConcurrentChunks :
        /\ asksSourceOf(s)
        /\ LET prompt == promptTokensAfter(localsSeen(s).promptTokens, chunk)
               completion == completionTokensAfter(localsSeen(s).completionTokens, chunk)
           IN  /\ locals' = [locals EXCEPT ![localsOf(s)] =
                                [promptTokens |-> prompt, completionTokens |-> completion]]
               /\ streams' = [streams EXCEPT
                                 ![s].pc = "suspendedYield",
                                 ![s].transport = Append(@, [chunk |-> chunk]),
                                 ![s].yielded =
                                     Append(@, responseData(chunk, prompt, completion,
                                                            streams[s].request[1].model)),
                                 ![s].lastPull = "yield"]
        /\ chatCalls' = chatCallsAfterPullOf(s)
        /\ pulls' = Append(pulls, s)
        /\ UNCHANGED single

\* a pull of stream s on which its source's iteration rejects
concurrentPullSourceRejects ==
    \E s \in Streams, error \in ConcurrentRejections :
        /\ asksSourceOf(s)
        /\ locals' = [locals EXCEPT ![localsOf(s)] = localsSeen(s)]
        /\ streams' = [streams EXCEPT
                          ![s].pc = "completed",
                          ![s].transport = Append(@, [rejects |-> error, on |-> "chunk"]),
                          ![s].thrown = <<StreamingError(error)>>,
                          ![s].lastPull = "throw"]
        /\ chatCalls' = chatCallsAfterPullOf(s)
        /\ pulls' = Append(pulls, s)
        /\ UNCHANGED single

\* a pull of stream s on which its source has no more chunks
concurrentPullSourceEnds ==
    \E s \in Streams :
        /\ asksSourceOf(s)
        /\ locals' = [locals EXCEPT ![localsOf(s)] = localsSeen(s)]
        /\ streams' = [streams EXCEPT
                          ![s].pc = "completed",
                          ![s].transport = Append(@, [ends |-> TRUE]),
                          ![s].lastPull = "return"]
        /\ chatCalls' = chatCallsAfterPullOf(s)
        /\ pulls' = Append(pulls, s)
        /\ UNCHANGED single

\* the pull of stream s after the fragment of a chunk with done: the loop breaks
concurrentPullBreaks ==
    \E s \in Streams :
        /\ streams[s].pc = "suspendedYield"
        /\ breaksAfter(Last(streams[s].transport).chunk)
        /\ streams' = [streams EXCEPT ![s].pc = "completed", ![s].lastPull = "return"]
        /\ pulls' = Append(pulls, s)
        /\ UNCHANGED <<single, chatCalls, locals>>

\* a pull of stream s after its generator has returned or thrown
concurrentPullCompleted ==
    \E s \in Streams :
        /\ streams[s].pc = "completed"
        /\ streams' = [streams EXCEPT ![s].lastPull = "return"]
        /\ UNCHANGED <<single, chatCalls, locals, pulls>>

NextConcurrent ==
    \/ concurrentGenerateContentStream
    \/ concurrentPullChatRejects
    \/ concurrentPullChunk
    \/ concurrentPullSourceRejects
    \/ concurrentPullSourceEnds
    \/ concurrentPullBreaks
    \/ concurrentPullCompleted

SpecConcurrent == Init /\ [][NextConcurrent]_vars

(***************************************************************************)
(* What the claims speak of, restated over the recorded calls.             *)
(***************************************************************************)
IsStream == op = "generateContentStream"

\* the chunks the source delivered to the stream, in order
SourceChunks ==
    LET events == SelectSeq(transport, LAMBDA e : Has(e, "chunk"))
    IN  [i \in 1..Len(events) |-> events[i].chunk]

\* the fields of a fragment the caller reads
FragmentText(fragment) == fragment.candidates[1].content.parts[1].text
FragmentFinish(fragment) == fragment.candidates[1].finishReason

\* the message of an upstream failure, or its string form when it is no Error
UpstreamMessage(error) ==
    CASE error = [name |-> "Error", message |-> "connection refused"] -> "connection refused"
      [] error = [string |-> "timeout"] -> "timeout"
      [] error = [number |-> 500] -> "500"

\* the value a running count has at chunk i: the value of the last chunk up
\* to i that reports the field, 0 when none does
RunningCount(chunks, i, field) ==
    LET reporting == {j \in 1..i : Has(chunks[j], field)}
    IN  IF reporting = {} THEN 0
        ELSE chunks[CHOOSE j \in reporting : \A k \in reporting : k <= j][field]

\* C1: a stream yields one fragment per source chunk, in source order, up to
\* and including the first chunk whose completion flag is true; the pull
\* after that fragment ends the iteration, and the source is never asked for a
\* chunk after the first completion-flagged one.
C1_OneFragmentPerChunkUntilDone ==
    IsStream =>
        /\ Len(yielded) = Len(SourceChunks)
        /\ \A i \in 1..Len(yielded) :
            /\ Len(yielded[i].candidates) = 1
            /\ Len(yielded[i].candidates[1].content.parts) = 1
            /\ FragmentText(yielded[i]) =
                   (IF Has(SourceChunks[i], "message") THEN SourceChunks[i].message.content
                    ELSE "")
            /\ FragmentFinish(yielded[i]) = "STOP" <=> SourceChunks[i].done
        /\ \A i \in 1..Len(transport) :
            (Has(transport[i], "chunk") /\ transport[i].chunk.done) => i = Len(transport)
        /\ (pc = "completed" /\ transport # <<>> /\ Has(Last(transport), "chunk"))
               => (Last(transport).chunk.done /\ lastPull = "return" /\ thrown = <<>>)

\* C1 witness: two fragments were yielded, the second for a chunk with done,
\* and the pull after it ended the iteration.
C1_Witness ==
    /\ IsStream
    /\ pc = "completed"
    /\ Len(yielded) = 2
    /\ ~SourceChunks[1].done
    /\ SourceChunks[2].done
    /\ FragmentFinish(yielded[2]) = "STOP"

\* C2: when the transport fails on a pull of a stream (on opening the chat
\* call or on a later chunk), that pull throws an Error whose message is the
\* streaming prefix followed by the upstream message; the fragments yielded
\* before stay as they were, and no later pull yields or changes anything.
C2_StreamFailure ==
    [][ IsStream =>
          /\ (Len(transport') > Len(transport) /\ Has(Last(transport'), "rejects")) =>
                /\ thrown' = <<[name |-> "Error",
                                message |-> "Ollama streaming error: "
                                            \o UpstreamMessage(Last(transport').rejects)]>>
                /\ lastPull' = "throw"
                /\ pc' = "completed"
                /\ yielded' = yielded
          /\ thrown # <<>> =>
                /\ yielded' = yielded
                /\ thrown' = thrown
                /\ transport' = transport
                /\ lastPull' = "return"
      ]_vars

\* C2 witness: a stream failed after it had yielded a fragment, on a thrown
\* non-Error, and was pulled again.
C2_Witness ==
    /\ IsStream
    /\ Len(yielded) >= 1
    /\ thrown # <<>>
    /\ Has(Last(transport), "rejects")
    /\ Last(transport).on = "chunk"
    /\ lastPull = "return"

\* C3: when the chat call of generateContent fails, generateContent throws an
\* Error whose message is the provider-API prefix followed by the upstream
\* message (the string form of a thrown non-Error); it returns nothing and
\* the chat call was issued exactly once.
C3_GenerateContentFailure ==
    (op = "generateContent" /\ Has(transport[1], "rejects")) =>
        /\ pc = "threw"
        /\ thrown = <<[name |-> "Error",
                       message |-> "Ollama API error: "
                                   \o UpstreamMessage(transport[1].rejects)]>>
        /\ returned = <<>>
        /\ Len(chatCalls) = 1
        /\ Len(transport) = 1
        /\ ~chatCalls[1].stream

\* C3 witness: generateContent failed on a thrown number.
C3_Witness ==
    /\ op = "generateContent"
    /\ thrown # <<>>
    /\ transport[1].rejects = [number |-> 500]

\* C4: the running prompt and output counts of a stream start at 0 and take a
\* chunk's reported value whenever it reports one, persisting otherwise; a
\* fragment carries a usage summary iff a running count is positive at its
\* chunk, and the summary holds the two running counts and their sum.
C4_RunningUsage ==
    IsStream =>
        /\ promptTokens = RunningCount(SourceChunks, Len(SourceChunks), "prompt_eval_count")
        /\ completionTokens = RunningCount(SourceChunks, Len(SourceChunks), "eval_count")
        /\ \A i \in 1..Len(yielded) :
            LET prompt == RunningCount(SourceChunks, i, "prompt_eval_count")
                output == RunningCount(SourceChunks, i, "eval_count")
            IN  /\ Has(yielded[i], "usageMetadata") <=> (prompt > 0 \/ output > 0)
                /\ Has(yielded[i], "usageMetadata") =>
                       yielded[i].usageMetadata =
                           [promptTokenCount |-> prompt,
                            candidatesTokenCount |-> output,
                            totalTokenCount |-> prompt + output]

\* C4 witness: the second chunk reports no count and its fragment carries the
\* count the first chunk reported; the third reports 0 and carries no usage.
C4_Witness ==
    /\ IsStream
    /\ Len(yielded) = 3
    /\ Has(SourceChunks[1], "prompt_eval_count")
    /\ SourceChunks[1].prompt_eval_count = 5
    /\ ~Has(SourceChunks[2], "prompt_eval_count")
    /\ ~Has(SourceChunks[2], "eval_count")
    /\ Has(yielded[2], "usageMetadata")
    /\ yielded[2].usageMetadata.promptTokenCount = 5
    /\ ~Has(yielded[3], "usageMetadata")

\* the parts of a turn that carry `field`, in order
PartsWith(content, field) ==
    IF Has(content, "parts") THEN SelectSeq(content.parts, LAMBDA p : Has(p, field))
    ELSE <<>>

\* the texts of a turn's text-bearing parts, joined by newlines
JoinedText(content) ==
    LET texts == PartsWith(content, "text")
    IN  join([i \in 1..Len(texts) |-> texts[i].text], "\n")

\* the role a message gets from its turn: "assistant" for "model", else the
\* turn's own role (none when the turn has none)
HasMappedRole(message, content) ==
    IF Has(content, "role")
    THEN Has(message, "role")
         /\ message.role = (IF content.role = "model" THEN "assistant" ELSE content.role)
    ELSE ~Has(message, "role")

\* C5: contentToOllamaMessage emits one of three shapes in strict priority:
\* (a) with a function-call part, the mapped role, the joined text and one
\* tool call per function-call part in order, whatever else the turn holds;
\* (b) else with a function-response part, role "tool" and the JSON list of
\* the payloads, the text ignored; (c) else the mapped role and joined text.
C5_MessageShapes ==
    op = "contentToOllamaMessage" =>
        LET content == args[1]
            message == returned[1]
            calls == PartsWith(content, "functionCall")
            responses == PartsWith(content, "functionResponse")
        IN  IF calls # <<>>
            THEN /\ DOMAIN message \subseteq {"role", "content", "tool_calls"}
                 /\ HasMappedRole(message, content)
                 /\ message.content = JoinedText(content)
                 /\ Has(message, "tool_calls")
                 /\ Len(message.tool_calls) = Len(calls)
                 /\ \A k \in 1..Len(calls) :
                        message.tool_calls[k] =
                            [function |-> [name |-> calls[k].functionCall.name,
                                           arguments |-> calls[k].functionCall.args]]
            ELSE IF responses # <<>>
            THEN message =
                     [role |-> "tool",
                      content |-> JSONstringify([k \in 1..Len(responses) |->
                                                    responses[k].functionResponse])]
            ELSE /\ DOMAIN message \subseteq {"role", "content"}
                 /\ HasMappedRole(message, content)
                 /\ message.content = JoinedText(content)

\* C5 witness: a "model" turn with a function-response part before a
\* function-call part was mapped, to an "assistant" message with a tool call.
C5_Witness ==
    /\ op = "contentToOllamaMessage"
    /\ Has(args[1], "role") /\ args[1].role = "model"
    /\ Has(args[1], "parts") /\ Len(args[1].parts) = 2
    /\ Has(args[1].parts[1], "functionResponse")
    /\ Has(args[1].parts[2], "functionCall")
    /\ returned[1].role = "assistant"
    /\ Len(returned[1].tool_calls) = 1

\* the request has no system instruction
NoSystemInstruction(params) ==
    ~Has(params, "config") \/ ~Has(params.config, "systemInstruction")

\* the turns of a request
Turns(params) ==
    IF Has(params.contents, "array") THEN params.contents.array ELSE <<params.contents>>

\* a turn that is a bare string, or whose parts all are text and nothing else
TextOnly(turn) ==
    \/ DOMAIN turn = {"string"}
    \/ /\ Has(turn, "parts")
       /\ Has(turn, "role")
       /\ \A i \in 1..Len(turn.parts) : DOMAIN turn.parts[i] = {"text"}

\* the message of a text-only turn
TextMessage(turn) ==
    IF Has(turn, "string") THEN [role |-> "user", content |-> turn.string]
    ELSE [role |-> IF turn.role = "model" THEN "assistant" ELSE turn.role,
          content |-> JoinedText(turn)]

\* C6: for a request with a non-empty sequence of text-only turns and no
\* system instruction, geminiToOllamaRequest gives exactly one message per
\* turn, in the order of the turns, "model" renamed "assistant" and every
\* other role unchanged, and no system message prepended.
C6_OneMessagePerTurn ==
    (/\ op = "geminiToOllamaRequest"
     /\ NoSystemInstruction(args[1])
     /\ Turns(args[1]) # <<>>
     /\ \A i \in 1..Len(Turns(args[1])) : TextOnly(Turns(args[1])[i]))
    => /\ Len(returned[1].messages) = Len(Turns(args[1]))
       /\ \A i \in 1..Len(Turns(args[1])) :
              returned[1].messages[i] = TextMessage(Turns(args[1])[i])

\* C6 witness: two different text-only turns, a "model" turn first, no
\* system instruction.
C6_Witness ==
    /\ op = "geminiToOllamaRequest"
    /\ NoSystemInstruction(args[1])
    /\ Len(Turns(args[1])) = 2
    /\ \A i \in 1..2 : TextOnly(Turns(args[1])[i])
    /\ Has(Turns(args[1])[1], "role") /\ Turns(args[1])[1].role = "model"
    /\ Has(Turns(args[1])[2], "role") /\ Turns(args[1])[2].role = "user"
    /\ returned[1].messages[1].role = "assistant"

\* the request's config carries a system instruction: a string, or an object
\* that bears parts
CarriesSystemInstruction(params) ==
    /\ Has(params, "config")
    /\ Has(params.config, "systemInstruction")
    /\ \/ Has(params.config.systemInstruction, "string")
          /\ params.config.systemInstruction.string # ""
       \/ Has(params.config.systemInstruction, "parts")

\* the instruction string, or the newline-joined text of its text parts
InstructionText(params) ==
    IF Has(params.config.systemInstruction, "string")
    THEN params.config.systemInstruction.string
    ELSE JoinedText(params.config.systemInstruction)

\* the messages are one system message with the instruction text, then one
\* message per turn
SystemMessageFirst(params, messages) ==
    /\ Len(messages) = 1 + Len(Turns(params))
    /\ messages[1] = [role |-> "system", content |-> InstructionText(params)]

\* C7 as stated: whenever the config carries a system instruction (a string or
\* a parts-bearing object), exactly one system message with the instruction
\* text is prepended before every turn message; with no system instruction
\* the adapter adds no system message.
C7_AsStated ==
    op = "geminiToOllamaRequest" =>
        /\ CarriesSystemInstruction(args[1]) => SystemMessageFirst(args[1], returned[1].messages)
        /\ NoSystemInstruction(args[1]) => Len(returned[1].messages) = Len(Turns(args[1]))

\* C7 amended: a system message with the instruction text is prepended, before
\* every turn message, exactly when the config carries a system instruction
\* whose text (the string, or the joined text of its text parts) is not empty;
\* otherwise the adapter adds no system message.
C7_SystemMessageWhenTextNonEmpty ==
    op = "geminiToOllamaRequest" =>
        IF CarriesSystemInstruction(args[1]) /\ InstructionText(args[1]) # ""
        THEN SystemMessageFirst(args[1], returned[1].messages)
        ELSE Len(returned[1].messages) = Len(Turns(args[1]))

\* C7 witness: a parts-bearing instruction with two text parts was prepended
\* to a history of two turns.
C7_Witness ==
    /\ op = "geminiToOllamaRequest"
    /\ CarriesSystemInstruction(args[1])
    /\ Has(args[1].config.systemInstruction, "parts")
    /\ Len(Turns(args[1])) = 2
    /\ returned[1].messages[1] = [role |-> "system", content |-> "Be\nbrief"]
    /\ Len(returned[1].messages) = 3

\* a state in which ollamaToGeminiResponse has mapped a chat response
Mapped ==
    \/ op = "ollamaToGeminiResponse"
    \/ op = "generateContent" /\ returned # <<>>

\* the chat response that was mapped
SourceResponse == IF op = "ollamaToGeminiResponse" THEN args[1] ELSE transport[1].resolves

\* the tool calls of a chat response, none when the field is absent
ToolCallsOf(response) ==
    IF Has(response.message, "tool_calls") THEN response.message.tool_calls ELSE <<>>

\* C8: ollamaToGeminiResponse produces exactly one candidate whose parts are
\* one text part with the message content when it is non-empty, then one
\* function-call part per tool call, in tool-call order, with its name and
\* arguments; so with non-empty content and no tool calls the text part is
\* the only part and equals the source content.
C8_ResponseParts ==
    Mapped =>
        LET response == SourceResponse
            calls == ToolCallsOf(response)
            texts == IF response.message.content # "" THEN 1 ELSE 0
            parts == returned[1].candidates[1].content.parts
        IN  /\ Len(returned[1].candidates) = 1
            /\ Len(parts) = texts + Len(calls)
            /\ texts = 1 => parts[1] = [text |-> response.message.content]
            /\ \A k \in 1..Len(calls) :
                   parts[texts + k] =
                       [functionCall |-> [name |-> calls[k].function.name,
                                          args |-> calls[k].function.arguments]]
            /\ (texts = 1 /\ calls = <<>>) => parts = <<[text |-> response.message.content]>>

\* C8 witness: a response with content and two different tool calls was
\* mapped to three parts.
C8_Witness ==
    /\ Mapped
    /\ SourceResponse.message.content = "hi"
    /\ Len(ToolCallsOf(SourceResponse)) = 2
    /\ ToolCallsOf(SourceResponse)[1] # ToolCallsOf(SourceResponse)[2]
    /\ Len(returned[1].candidates[1].content.parts) = 3

\* C9: the response of ollamaToGeminiResponse has a usage summary iff the
\* source defines at least one of the prompt and output counts (0 is
\* defined); each defined count is copied; the total is there, as their sum,
\* only when both are defined.
C9_UsageSummary ==
    Mapped =>
        LET response == SourceResponse
            hasPrompt == Has(response, "prompt_eval_count")
            hasOutput == Has(response, "eval_count")
        IN  /\ Has(returned[1], "usageMetadata") <=> (hasPrompt \/ hasOutput)
            /\ Has(returned[1], "usageMetadata") =>
                   LET usage == returned[1].usageMetadata
                   IN  /\ Has(usage, "promptTokenCount") <=> hasPrompt
                       /\ hasPrompt => usage.promptTokenCount = response.prompt_eval_count
                       /\ Has(usage, "candidatesTokenCount") <=> hasOutput
                       /\ hasOutput => usage.candidatesTokenCount = response.eval_count
                       /\ Has(usage, "totalTokenCount") <=> (hasPrompt /\ hasOutput)
                       /\ (hasPrompt /\ hasOutput) =>
                              usage.totalTokenCount =
                                  response.prompt_eval_count + response.eval_count

\* C9 witness: only the prompt count is defined, as 0; the summary is there,
\* with the count and without a total.
C9_Witness ==
    /\ Mapped
    /\ Has(SourceResponse, "prompt_eval_count")
    /\ SourceResponse.prompt_eval_count = 0
    /\ ~Has(SourceResponse, "eval_count")
    /\ Has(returned[1], "usageMetadata")
    /\ returned[1].usageMetadata = [promptTokenCount |-> 0]

RECURSIVE SumOf(_)
SumOf(numbers) == IF numbers = <<>> THEN 0 ELSE Head(numbers) + SumOf(Tail(numbers))

\* the characters of one text-bearing part, 0 for any other part
TextLength(part) ==
    IF Has(part, "text") THEN Len(part.text)
    ELSE IF Has(part, "string") THEN Len(part.string)
    ELSE 0

\* the total input character length of a countTokens request
TotalLength(params) ==
    LET turns == IF ~Has(params, "contents") THEN <<>> ELSE Turns(params)
    IN  SumOf([i \in 1..Len(turns) |->
                  IF Has(turns[i], "string") THEN Len(turns[i].string)
                  ELSE IF Has(turns[i], "parts")
                       THEN SumOf([j \in 1..Len(turns[i].parts) |->
                                      TextLength(turns[i].parts[j])])
                       ELSE 0])

C11_AsStated ==
    IsStream =>
        \A i \in 1..Len(yielded) :
            Has(yielded[i], "usageMetadata") =>
                /\ RunningCount(SourceChunks, i, "prompt_eval_count") # 0
                /\ RunningCount(SourceChunks, i, "eval_count") # 0

\* C11 amended: a fragment of a stream carries a usage summary only once at
\* least one running count is non-zero; none carries one while both running
\* counts are still zero.
C11_NoUsageWhileBothZero ==
    IsStream =>
        \A i \in 1..Len(yielded) :
            (/\ RunningCount(SourceChunks, i, "prompt_eval_count") = 0
             /\ RunningCount(SourceChunks, i, "eval_count") = 0)
            => ~Has(yielded[i], "usageMetadata")

\* C11 witness: the first fragment was yielded with both running counts at 0
\* and carries no usage; the second was yielded with the output count at 2
\* and the prompt count still 0, and carries a usage summary.
C11_Witness ==
    /\ IsStream
    /\ Len(yielded) = 2
    /\ RunningCount(SourceChunks, 1, "prompt_eval_count") = 0
    /\ RunningCount(SourceChunks, 1, "eval_count") = 0
    /\ ~Has(yielded[1], "usageMetadata")
    /\ RunningCount(SourceChunks, 2, "prompt_eval_count") = 0
    /\ RunningCount(SourceChunks, 2, "eval_count") = 2
    /\ Has(yielded[2], "usageMetadata")
    /\ yielded[2].usageMetadata.totalTokenCount = 2

\* the chunks the source of concurrent stream s delivered, in order
SourceChunksOf(s) ==
    LET events == SelectSeq(streams[s].transport, LAMBDA e : Has(e, "chunk"))
    IN  [i \in 1..Len(events) |-> events[i].chunk]

\* the fragments a stream consumed alone yields for `chunks`: the generator
\* body run on them in order, from the running counts `prompt` and `completion`
RECURSIVE AloneFragments(_, _, _, _)
AloneFragments(chunks, prompt, completion, model) ==
    IF chunks = <<>> THEN <<>>
    ELSE LET promptNow == promptTokensAfter(prompt, Head(chunks))
             completionNow == completionTokensAfter(completion, Head(chunks))
         IN  <<responseData(Head(chunks), promptNow, completionNow, model)>>
             \o AloneFragments(Tail(chunks), promptNow, completionNow, model)

\* C12: two streams obtained from one generator and pulled in any
\* interleaving are independent: each has yielded exactly the fragments
\* (text, finish reason, usage summary) it yields for its own chunks when
\* consumed alone, whatever the other stream has done in between.
C12_StreamsIndependent ==
    \A s \in Streams :
        streams[s].pc # "idle" =>
            streams[s].yielded =
                AloneFragments(SourceChunksOf(s), 0, 0, streams[s].request[1].model)

\* C12 witness: the pulls of the two streams alternated; stream 1 got a chunk
\* reporting a prompt count and then one reporting none, whose fragment
\* carries the count, while stream 2, pulled in between, yielded without usage.
C12_Witness ==
    /\ pulls = <<1, 2, 1, 2>>
    /\ Len(streams[1].yielded) = 2
    /\ Len(streams[2].yielded) = 2
    /\ Has(SourceChunksOf(1)[1], "prompt_eval_count")
    /\ SourceChunksOf(1)[1].prompt_eval_count = 5
    /\ ~Has(SourceChunksOf(1)[2], "prompt_eval_count")
    /\ Has(streams[1].yielded[2], "usageMetadata")
    /\ streams[1].yielded[2].usageMetadata.promptTokenCount = 5
    /\ ~Has(streams[2].yielded[1], "usageMetadata")

====
